---- MODULE Spec2Model ----
(***************************************************************************)
(* A model of the pytree schema engine of src/src/irnodes.py: the node     *)
(* kinds, test / validate over a node and a pytree, and intersect over two *)
(* nodes.  Pytrees and nodes are values of the model; every method is an   *)
(* operator that follows the method's code branch by branch, exceptions    *)
(* included.                                                               *)
(***************************************************************************)
EXTENDS Integers, Sequences, FiniteSets, TLC

(***************************************************************************)
(* Bounds of the explored universe.                                        *)
(***************************************************************************)
MaxInt == 2
MaxStr == 2
MaxFloat == 1
MaxLen == 2

\* Python's None, for an unset min_value / max_value (all modelled numbers are >= 0).
None == -1

(***************************************************************************)
(* Pytrees.  A leaf is [kind, n, items] with kind the Python type of the   *)
(* value: an int n, a bool (n = 1 for True, 0 for False), the float n.0,   *)
(* or the n-th string.  A list carries its items, a dict its entries       *)
(* [key, val] in insertion order.                                          *)
(***************************************************************************)
IntV(i) == [kind |-> "int", n |-> i, items |-> <<>>]
BoolV(i) == [kind |-> "bool", n |-> i, items |-> <<>>]
StrV(i) == [kind |-> "str", n |-> i, items |-> <<>>]
FloatV(i) == [kind |-> "float", n |-> i, items |-> <<>>]
ListV(s) == [kind |-> "list", n |-> 0, items |-> s]
DictV(s) == [kind |-> "dict", n |-> 0, items |-> s]
Entry(k, x) == [key |-> k, val |-> x]

\* float('nan'), the float that no comparison holds of, itself included.  The
\* other floats of the model are not negative.
NaN == FloatV(-2)
IsNaN(x) == x.kind = "float" /\ x.n < 0

SeqsUpTo(S, len) == UNION {[1..k -> S] : k \in 0..len}

Numeric == {"int", "bool", "float"}

\* Python's == between two leaves: the numeric kinds compare by number
\* (True == 1 == 1.0), a str equals only the same str.
PyEq(x, y) ==
    \/ /\ x.kind \in Numeric /\ y.kind \in Numeric /\ x.n = y.n
       /\ ~IsNaN(x) /\ ~IsNaN(y)
    \/ x.kind = "str" /\ y.kind = "str" /\ x.n = y.n

\* isinstance(x, pytype): bool is a subclass of int.
IsInstance(x, pytype) ==
    \/ x.kind = pytype
    \/ pytype = "int" /\ x.kind = "bool"

\* key in pytree, for a dict pytree: by hash and ==.
KeyIn(key, d) == \E i \in 1..Len(d.items) : PyEq(d.items[i].key, key)

\* pytree[key], defined when KeyIn(key, pytree).
Lookup(d, key) ==
    d.items[CHOOSE i \in 1..Len(d.items) : PyEq(d.items[i].key, key)].val

IntValues == {IntV(i) : i \in 0..MaxInt}
BoolValues == {BoolV(0), BoolV(1)}
StrValues == {StrV(i) : i \in 1..MaxStr}
FloatValues == {FloatV(i) : i \in 0..MaxFloat}
Leaves == IntValues \cup BoolValues \cup StrValues \cup FloatValues

\* The leaves that occur inside the explored containers, and their keys.
ElemValues == {IntV(0), BoolV(1), StrV(1)}
KeyValues == {StrV(1), StrV(2), IntV(1), BoolV(1)}

DistinctKeys(s) ==
    \A i, j \in 1..Len(s) : i # j => ~PyEq(s[i].key, s[j].key)

ListValues == {ListV(s) : s \in SeqsUpTo(ElemValues, MaxLen)}
DictEntries == {Entry(k, x) : k \in KeyValues, x \in ElemValues}
DictValues ==
    {DictV(s) : s \in {t \in SeqsUpTo(DictEntries, MaxLen) : DistinctKeys(t)}}

\* Containers of one container of one leaf, for paths of depth two.
InnerValues ==
    {ListV(<<x>>) : x \in ElemValues}
        \cup {DictV(<<Entry(k, x)>>) : k \in KeyValues, x \in ElemValues}
NestedValues ==
    {ListV(<<c>>) : c \in InnerValues}
        \cup {DictV(<<Entry(StrV(1), c)>>) : c \in InnerValues}

Values == Leaves \cup ListValues \cup DictValues \cup NestedValues

(***************************************************************************)
(* Nodes.  cls is the Python class of the node.                            *)
(***************************************************************************)
LiteralCls == {"IntNode", "BoolNode", "StrNode", "FloatNode"}
AbstractLiteralCls ==
    {"AbstractIntNode", "AbstractBoolNode", "AbstractStrNode",
     "AbstractFloatNode", "AbstractAnyNode"}
BranchCls == {"DictNode", "ListNode"}
AbstractBranchCls == {"AbstractDictNode", "AbstractListNode", "UnionNode"}

\* The node registry filled by __init_subclass__: value type -> literal class.
NodeRegistry ==
    [t \in {"int", "bool", "str", "float", "dict", "list"} |->
        CASE t = "int" -> "IntNode"
          [] t = "bool" -> "BoolNode"
          [] t = "str" -> "StrNode"
          [] t = "float" -> "FloatNode"
          [] t = "dict" -> "DictNode"
          [] t = "list" -> "ListNode"]

\* The abstract registry: type marker -> abstract class.
AbstractNodeRegistry ==
    [t \in {"int", "bool", "str", "float", "Any", "dict", "list", "Union"} |->
        CASE t = "int" -> "AbstractIntNode"
          [] t = "bool" -> "AbstractBoolNode"
          [] t = "str" -> "AbstractStrNode"
          [] t = "float" -> "AbstractFloatNode"
          [] t = "Any" -> "AbstractAnyNode"
          [] t = "dict" -> "AbstractDictNode"
          [] t = "list" -> "AbstractListNode"
          [] t = "Union" -> "UnionNode"]

\* LiteralNode(value): the class comes from the registry, by type(value).
LiteralNode(x) == [cls |-> NodeRegistry[x.kind], value |-> x]
AbstractIntNode(lo, hi) ==
    [cls |-> "AbstractIntNode", min_value |-> lo, max_value |-> hi]
AbstractFloatNode(lo, hi) ==
    [cls |-> "AbstractFloatNode", min_value |-> lo, max_value |-> hi]
AbstractBoolNode == [cls |-> "AbstractBoolNode"]
AbstractStrNode == [cls |-> "AbstractStrNode"]
AbstractAnyNode == [cls |-> "AbstractAnyNode"]
DictNode(s) == [cls |-> "DictNode", schema |-> s]
ListNode(s) == [cls |-> "ListNode", schema |-> s]
AbstractDictNode(k, x) ==
    [cls |-> "AbstractDictNode", key_schema |-> k, value_schema |-> x]
AbstractListNode(x) == [cls |-> "AbstractListNode", item_schema |-> x]
UnionNode(s) == [cls |-> "UnionNode", schemas |-> s]

\* self.pytype, as every __init__ sets it.
Pytype(node) ==
    CASE node.cls \in LiteralCls -> node.value.kind
      [] node.cls = "AbstractIntNode" -> "int"
      [] node.cls = "AbstractBoolNode" -> "bool"
      [] node.cls = "AbstractStrNode" -> "str"
      [] node.cls = "AbstractFloatNode" -> "float"
      [] node.cls = "AbstractAnyNode" -> "Any"
      [] node.cls \in {"DictNode", "AbstractDictNode"} -> "dict"
      [] node.cls \in {"ListNode", "AbstractListNode"} -> "list"
      [] node.cls = "UnionNode" -> "Union"

(***************************************************************************)
(* The explored nodes.                                                     *)
(***************************************************************************)
LiteralNodes == {LiteralNode(x) : x \in Leaves}
AbstractIntNodes ==
    {AbstractIntNode(lo, hi) : lo, hi \in {None} \cup (0..MaxInt)}
AbstractFloatNodes ==
    {AbstractFloatNode(lo, hi) : lo, hi \in {None} \cup (0..MaxFloat)}
LeafNodes ==
    LiteralNodes \cup AbstractIntNodes \cup AbstractFloatNodes
        \cup {AbstractBoolNode, AbstractStrNode, AbstractAnyNode}

\* The children and the keys of the explored branch nodes.
ChildNodes == {LiteralNode(IntV(1)), AbstractStrNode, AbstractAnyNode}
KeyNodes == {LiteralNode(StrV(1)), LiteralNode(IntV(1)), LiteralNode(BoolV(1))}

DistinctKeyNodes(s) == \A i, j \in 1..Len(s) : i # j => s[i].key # s[j].key

SchemaEntries == {Entry(k, c) : k \in KeyNodes, c \in ChildNodes}
DictNodes ==
    {DictNode(s) :
        s \in {t \in SeqsUpTo(SchemaEntries, MaxLen) : DistinctKeyNodes(t)}}
ListNodes == {ListNode(s) : s \in SeqsUpTo(ChildNodes, MaxLen)}
AbstractDictNodes == {AbstractDictNode(k, c) : k, c \in ChildNodes}
AbstractListNodes == {AbstractListNode(c) : c \in ChildNodes}
UnionNodes == {UnionNode(s) : s \in SeqsUpTo(ChildNodes, MaxLen)}

\* Branch nodes over one child, and every wrapping of one of them.
Wrappings(c) ==
    {ListNode(<<c>>), DictNode(<<Entry(LiteralNode(StrV(1)), c)>>),
     AbstractListNode(c), AbstractDictNode(AbstractStrNode, c), UnionNode(<<c>>)}
InnerNodes == UNION {Wrappings(c) : c \in ChildNodes}
NestedNodes == UNION {Wrappings(c) : c \in InnerNodes}

Nodes ==
    LeafNodes \cup DictNodes \cup ListNodes \cup AbstractDictNodes
        \cup AbstractListNodes \cup UnionNodes \cup NestedNodes

(***************************************************************************)
(* test.  The result is "True", "False", or the name of the exception the  *)
(* call raises.                                                            *)
(***************************************************************************)
PyBool(b) == IF b THEN "True" ELSE "False"

\* LiteralNode.test
LiteralTest(node, pytree) ==
    IF ~IsInstance(pytree, Pytype(node)) THEN "False"
    ELSE PyBool(PyEq(pytree, node.value))

\* check_special_cases: "None", the bound the value violates, or "TypeError"
\* when pytree < min_value (pytree > max_value) compares a non-number.
CheckSpecialCases(node, pytree) ==
    IF node.cls \in {"AbstractIntNode", "AbstractFloatNode"}
    THEN IF node.min_value # None /\ pytree.kind \notin Numeric THEN "TypeError"
         ELSE IF /\ node.min_value # None /\ ~IsNaN(pytree)
                 /\ pytree.n < node.min_value THEN "min"
         ELSE IF node.max_value # None /\ pytree.kind \notin Numeric THEN "TypeError"
         ELSE IF /\ node.max_value # None /\ ~IsNaN(pytree)
                 /\ pytree.n > node.max_value THEN "max"
         ELSE "None"
    ELSE "None"

\* AbstractLiteralNode.test without its isinstance guard.
AbstractLiteralTestUnguarded(node, pytree) ==
    LET c == CheckSpecialCases(node, pytree)
    IN  IF c = "TypeError" THEN c ELSE PyBool(c = "None")

\* AbstractLiteralNode.test
AbstractLiteralTest(node, pytree) ==
    IF ~IsInstance(pytree, Pytype(node)) THEN "False"
    ELSE LET c == CheckSpecialCases(node, pytree)
         IN  IF c = "TypeError" THEN c ELSE PyBool(c = "None")

RECURSIVE TestR(_, _)
RECURSIVE DictTestFrom(_, _, _)
RECURSIVE ListTestFrom(_, _, _)
RECURSIVE AbstractDictTestFrom(_, _, _)
RECURSIVE AbstractListTestFrom(_, _, _)
RECURSIVE UnionTestFrom(_, _, _)

\* DictNode.test, the loop over self.schema.items() from the i-th entry.
DictTestFrom(node, pytree, i) ==
    IF i > Len(node.schema) THEN "True"
    ELSE LET key == node.schema[i].key.value
         IN  IF ~KeyIn(key, pytree) THEN "False"
             ELSE LET r == TestR(node.schema[i].val, Lookup(pytree, key))
                  IN  IF r = "True" THEN DictTestFrom(node, pytree, i + 1) ELSE r

\* DictNode.test
DictTest(node, pytree) ==
    IF ~IsInstance(pytree, "dict") THEN "False"
    ELSE IF Len(pytree.items) # Len(node.schema) THEN "False"
    ELSE DictTestFrom(node, pytree, 1)

\* ListNode.test, the loop over zip(pytree, self.schema) from the i-th pair.
ListTestFrom(node, pytree, i) ==
    IF i > Len(node.schema) THEN "True"
    ELSE LET r == TestR(node.schema[i], pytree.items[i])
         IN  IF r = "True" THEN ListTestFrom(node, pytree, i + 1) ELSE r

\* ListNode.test
ListTest(node, pytree) ==
    IF ~IsInstance(pytree, "list") THEN "False"
    ELSE IF Len(pytree.items) # Len(node.schema) THEN "False"
    ELSE ListTestFrom(node, pytree, 1)

\* AbstractDictNode.test, the loop over pytree.items() from the i-th entry.
AbstractDictTestFrom(node, pytree, i) ==
    IF i > Len(pytree.items) THEN "True"
    ELSE LET rk == TestR(node.key_schema, pytree.items[i].key)
         IN  IF rk # "True" THEN rk
             ELSE LET rv == TestR(node.value_schema, pytree.items[i].val)
                  IN  IF rv # "True" THEN rv
                      ELSE AbstractDictTestFrom(node, pytree, i + 1)

\* AbstractDictNode.test
AbstractDictTest(node, pytree) ==
    IF ~IsInstance(pytree, "dict") THEN "False"
    ELSE AbstractDictTestFrom(node, pytree, 1)

\* AbstractListNode.test, the loop over pytree from the i-th item.
AbstractListTestFrom(node, pytree, i) ==
    IF i > Len(pytree.items) THEN "True"
    ELSE LET r == TestR(node.item_schema, pytree.items[i])
         IN  IF r = "True" THEN AbstractListTestFrom(node, pytree, i + 1) ELSE r

\* AbstractListNode.test
AbstractListTest(node, pytree) ==
    IF ~IsInstance(pytree, "list") THEN "False"
    ELSE AbstractListTestFrom(node, pytree, 1)

\* UnionNode.test: any(schema.test(pytree) for schema in self.schemas).
UnionTestFrom(node, pytree, i) ==
    IF i > Len(node.schemas) THEN "False"
    ELSE LET r == TestR(node.schemas[i], pytree)
         IN  IF r = "False" THEN UnionTestFrom(node, pytree, i + 1) ELSE r

\* node.test(pytree), by the class of node.
TestR(node, pytree) ==
    CASE node.cls \in LiteralCls -> LiteralTest(node, pytree)
      [] node.cls = "AbstractAnyNode" -> "True"
      [] node.cls \in AbstractLiteralCls \ {"AbstractAnyNode"} ->
            AbstractLiteralTest(node, pytree)
      [] node.cls = "DictNode" -> DictTest(node, pytree)
      [] node.cls = "ListNode" -> ListTest(node, pytree)
      [] node.cls = "AbstractDictNode" -> AbstractDictTest(node, pytree)
      [] node.cls = "AbstractListNode" -> AbstractListTest(node, pytree)
      [] node.cls = "UnionNode" -> UnionTestFrom(node, pytree, 1)
      [] OTHER -> "NotImplementedError"

\* node.test(pytree) returned True.
Test(node, pytree) == TestR(node, pytree) = "True"

(***************************************************************************)
(* validate.  The result is [status, path, msg]: status "ok" when the call *)
(* returns, else the name of the exception; msg is the innermost message   *)
(* and path the "for key ..." / "for item at index ..." / "for value ..."  *)
(* prefixes that the enclosing nodes put before it, outermost first.       *)
(***************************************************************************)
Ok == [status |-> "ok", path |-> <<>>, msg |-> ""]
Err(m) == [status |-> "IRNodeError", path |-> <<>>, msg |-> m]
Raise(exc) == [status |-> exc, path |-> <<>>, msg |-> ""]
Segment(t, x) == [tag |-> t, at |-> x]

\* except IRNodeError as e: raise IRNodeError(f"Validation failed for ...: {e}");
\* any other exception passes through.
Wrap(seg, e) ==
    IF e.status = "IRNodeError" THEN [e EXCEPT !.path = <<seg>> \o @] ELSE e

\* LiteralNode.validate
LiteralValidate(node, pytree) ==
    IF ~IsInstance(pytree, Pytype(node)) THEN Err("does not have type")
    ELSE IF ~PyEq(pytree, node.value) THEN Err("does not match")
    ELSE Ok

\* AbstractLiteralNode.validate
AbstractLiteralValidate(node, pytree) ==
    IF ~IsInstance(pytree, Pytype(node)) THEN Err("is not of type")
    ELSE LET c == CheckSpecialCases(node, pytree)
         IN  IF c = "TypeError" THEN Raise(c)
             ELSE IF c # "None" THEN Err(c)
             ELSE Ok

RECURSIVE Validate(_, _)
RECURSIVE DictValidateFrom(_, _, _)
RECURSIVE ListValidateFrom(_, _, _)
RECURSIVE AbstractDictValidateFrom(_, _, _)
RECURSIVE AbstractListValidateFrom(_, _, _)
RECURSIVE UnionValidateFrom(_, _, _)
RECURSIVE UnionValidateCalls(_, _, _)

\* DictNode.validate, the loop over self.schema.items() from the i-th entry.
DictValidateFrom(node, pytree, i) ==
    IF i > Len(node.schema) THEN Ok
    ELSE LET key == node.schema[i].key.value
         IN  IF ~KeyIn(key, pytree) THEN Err("key not found")
             ELSE LET e == Validate(node.schema[i].val, Lookup(pytree, key))
                  IN  IF e.status = "ok"
                      THEN DictValidateFrom(node, pytree, i + 1)
                      ELSE Wrap(Segment("key", key), e)

\* DictNode.validate without the comparison of the two sizes.
DictValidateNoSize(node, pytree) ==
    IF ~IsInstance(pytree, "dict") THEN Err("is not a dictionary")
    ELSE DictValidateFrom(node, pytree, 1)

\* DictNode.validate
DictValidate(node, pytree) ==
    IF ~IsInstance(pytree, "dict") THEN Err("is not a dictionary")
    ELSE IF Len(pytree.items) # Len(node.schema) THEN Err("schema size")
    ELSE DictValidateFrom(node, pytree, 1)

\* ListNode.validate, the loop over enumerate(zip(pytree, self.schema)).
ListValidateFrom(node, pytree, i) ==
    IF i > Len(node.schema) THEN Ok
    ELSE LET e == Validate(node.schema[i], pytree.items[i])
         IN  IF e.status = "ok"
             THEN ListValidateFrom(node, pytree, i + 1)
             ELSE Wrap(Segment("index", IntV(i - 1)), e)

\* ListNode.validate
ListValidate(node, pytree) ==
    IF ~IsInstance(pytree, "list") THEN Err("is not a list")
    ELSE IF Len(pytree.items) # Len(node.schema) THEN Err("schema size")
    ELSE ListValidateFrom(node, pytree, 1)

\* AbstractDictNode.validate, the loop over pytree.items() from the i-th entry.
AbstractDictValidateFrom(node, pytree, i) ==
    IF i > Len(pytree.items) THEN Ok
    ELSE LET key == pytree.items[i].key
             value == pytree.items[i].val
             ek == Validate(node.key_schema, key)
         IN  IF ek.status # "ok" THEN Wrap(Segment("key", key), ek)
             ELSE LET ev == Validate(node.value_schema, value)
                  IN  IF ev.status # "ok" THEN Wrap(Segment("value", value), ev)
                      ELSE AbstractDictValidateFrom(node, pytree, i + 1)

\* AbstractDictNode.validate
AbstractDictValidate(node, pytree) ==
    IF ~IsInstance(pytree, "dict") THEN Err("is not a dictionary")
    ELSE AbstractDictValidateFrom(node, pytree, 1)

\* AbstractListNode.validate, the loop over enumerate(pytree).
AbstractListValidateFrom(node, pytree, i) ==
    IF i > Len(pytree.items) THEN Ok
    ELSE LET e == Validate(node.item_schema, pytree.items[i])
         IN  IF e.status = "ok"
             THEN AbstractListValidateFrom(node, pytree, i + 1)
             ELSE Wrap(Segment("index", IntV(i - 1)), e)

\* AbstractListNode.validate
AbstractListValidate(node, pytree) ==
    IF ~IsInstance(pytree, "list") THEN Err("is not a list")
    ELSE AbstractListValidateFrom(node, pytree, 1)

\* UnionNode.validate without the return that follows a successful alternative.
UnionValidateNoReturn(node, pytree, i) ==
    IF i > Len(node.schemas) THEN Err("does not match any schema in the union")
    ELSE LET e == Validate(node.schemas[i], pytree)
         IN  IF e.status \in {"ok", "IRNodeError"}
             THEN UnionValidateFrom(node, pytree, i + 1)
             ELSE e

\* UnionNode.validate, the loop over self.schemas from the i-th alternative.
UnionValidateFrom(node, pytree, i) ==
    IF i > Len(node.schemas) THEN Err("does not match any schema in the union")
    ELSE LET e == Validate(node.schemas[i], pytree)
         IN  IF e.status = "ok" THEN Ok
             ELSE IF e.status = "IRNodeError"
             THEN UnionValidateFrom(node, pytree, i + 1)
             ELSE e

\* How many alternatives the loop of UnionNode.validate calls validate on.
UnionValidateCalls(node, pytree, i) ==
    IF i > Len(node.schemas) THEN 0
    ELSE IF Validate(node.schemas[i], pytree).status = "IRNodeError"
    THEN 1 + UnionValidateCalls(node, pytree, i + 1)
    ELSE 1

\* node.validate(pytree), by the class of node.
Validate(node, pytree) ==
    CASE node.cls \in LiteralCls -> LiteralValidate(node, pytree)
      [] node.cls = "AbstractAnyNode" -> Ok
      [] node.cls \in AbstractLiteralCls \ {"AbstractAnyNode"} ->
            AbstractLiteralValidate(node, pytree)
      [] node.cls = "DictNode" -> DictValidate(node, pytree)
      [] node.cls = "ListNode" -> ListValidate(node, pytree)
      [] node.cls = "AbstractDictNode" -> AbstractDictValidate(node, pytree)
      [] node.cls = "AbstractListNode" -> AbstractListValidate(node, pytree)
      [] node.cls = "UnionNode" -> UnionValidateFrom(node, pytree, 1)
      [] OTHER -> Raise("NotImplementedError")

(***************************************************************************)
(* intersect.  The result is [status, node]: status "ok" and the returned  *)
(* node, or the name of the exception and no node.                         *)
(***************************************************************************)
NoNode == [cls |-> "None"]
Returned(node) == [status |-> "ok", node |-> node]
Raised(exc) == [status |-> exc, node |-> NoNode]

\* IRSchemaNode.from_type(obj) for obj a type marker: the abstract registry's
\* class for it, or IRNodeError.
FromTypeMarker(t) ==
    IF t \in DOMAIN AbstractNodeRegistry
    THEN AbstractNodeRegistry[t] ELSE "IRNodeError"

\* LiteralNode.__eq__: hash(a) == hash(b), the hash being made of the value's
\* hash (the number, for the numeric kinds) and of pytype.
LiteralEq(a, b) == Pytype(a) = Pytype(b) /\ a.value.n = b.value.n

\* LiteralNode.intersect
LiteralIntersect(node, operand) ==
    LET abstract_node == FromTypeMarker(Pytype(node))
    IN  IF abstract_node = "IRNodeError" THEN Raised("IRNodeError")
        ELSE IF operand.cls = "AbstractAnyNode" \/ operand.cls = abstract_node
        THEN Returned(node)
        ELSE IF operand.cls = node.cls
        THEN IF PyEq(node.value, operand.value)
             THEN Returned(node) ELSE Raised("IRNodeError")
        ELSE Raised("IRNodeError")

\* intersect_like that keeps the tighter of two differing bounds instead of
\* raising.
Tighter(x, y, up) ==
    IF x = None THEN y
    ELSE IF y = None THEN x
    ELSE IF (x < y) = up THEN y ELSE x
BoundedIntersectTightest(node, operand) ==
    Returned([cls |-> node.cls,
              min_value |-> Tighter(node.min_value, operand.min_value, TRUE),
              max_value |-> Tighter(node.max_value, operand.max_value, FALSE)])

\* AbstractIntNode.intersect_like and AbstractFloatNode.intersect_like
BoundedIntersectLike(node, operand) ==
    IF /\ node.min_value # None /\ operand.min_value # None
       /\ node.min_value # operand.min_value
    THEN Raised("IRNodeError")
    ELSE IF /\ node.max_value # None /\ operand.max_value # None
            /\ node.max_value # operand.max_value
    THEN Raised("IRNodeError")
    ELSE LET min_value == IF node.min_value # None
                          THEN node.min_value ELSE operand.min_value
             max_value == IF node.max_value # None
                          THEN node.max_value ELSE operand.max_value
         IN  Returned([cls |-> node.cls,
                       min_value |-> min_value, max_value |-> max_value])

\* AbstractLiteralNode.intersect; intersect_like is IRSchemaNode's (return
\* self) unless the class overrides it.
AbstractLiteralIntersect(node, operand) ==
    IF operand.cls = "AbstractAnyNode" THEN Returned(node)
    ELSE IF operand.cls = node.cls
    THEN IF node.cls \in {"AbstractIntNode", "AbstractFloatNode"}
         THEN BoundedIntersectLike(node, operand)
         ELSE Returned(node)
    ELSE Raised("IRNodeError")

\* AbstractAnyNode.intersect that returns the receiver whatever the operand.
AbstractAnyIntersectSelf(node, operand) == Returned(node)

\* AbstractAnyNode.intersect
AbstractAnyIntersect(node, operand) ==
    IF operand.cls = "AbstractAnyNode" THEN Returned(node) ELSE Returned(operand)

RECURSIVE Intersect(_, _)
RECURSIVE DictIntersectFrom(_, _, _, _)
RECURSIVE ListIntersectFrom(_, _, _, _)

\* DictNode.intersect_like, the loop that fills new_schema from the i-th entry.
DictIntersectFrom(node, operand, i, new_schema) ==
    IF i > Len(node.schema) THEN Returned(DictNode(new_schema))
    ELSE LET r == Intersect(node.schema[i].val, operand.schema[i].val)
         IN  IF r.status # "ok" THEN r
             ELSE DictIntersectFrom(node, operand, i + 1,
                     Append(new_schema, Entry(node.schema[i].key, r.node)))

\* DictNode.intersect_like: the two key lists must be equal, in order.
DictIntersectLike(node, operand) ==
    IF \/ Len(node.schema) # Len(operand.schema)
       \/ \E i \in 1..Len(node.schema) :
            ~LiteralEq(node.schema[i].key, operand.schema[i].key)
    THEN Raised("IRNodeError")
    ELSE DictIntersectFrom(node, operand, 1, <<>>)

\* ListNode.intersect_like, the loop over zip(self.schema, other.schema).
ListIntersectFrom(node, operand, i, new_schema) ==
    IF i > Len(node.schema) THEN Returned(ListNode(new_schema))
    ELSE LET r == Intersect(node.schema[i], operand.schema[i])
         IN  IF r.status # "ok" THEN r
             ELSE ListIntersectFrom(node, operand, i + 1,
                     Append(new_schema, r.node))

\* ListNode.intersect_like
ListIntersectLike(node, operand) ==
    IF Len(node.schema) # Len(operand.schema) THEN Raised("IRNodeError")
    ELSE ListIntersectFrom(node, operand, 1, <<>>)

\* BranchNode.intersect that takes any abstract branch node for a compatible
\* one, whatever its container type.
BranchIntersectAnyShape(node, operand) ==
    IF operand.cls = "AbstractAnyNode" THEN Returned(node)
    ELSE IF operand.cls = node.cls
    THEN IF node.cls = "DictNode"
         THEN DictIntersectLike(node, operand)
         ELSE ListIntersectLike(node, operand)
    ELSE IF operand.cls \in AbstractBranchCls
    THEN Returned(node)
    ELSE Raised("IRNodeError")

\* BranchNode.intersect
BranchIntersect(node, operand) ==
    IF operand.cls = "AbstractAnyNode" THEN Returned(node)
    ELSE IF operand.cls = node.cls
    THEN IF node.cls = "DictNode"
         THEN DictIntersectLike(node, operand)
         ELSE ListIntersectLike(node, operand)
    ELSE IF operand.cls \in AbstractBranchCls /\ Pytype(operand) = Pytype(node)
    THEN Returned(node)
    ELSE Raised("IRNodeError")

\* AbstractDictNode.intersect_like
AbstractDictIntersectLike(node, operand) ==
    LET k == Intersect(node.key_schema, operand.key_schema)
    IN  IF k.status # "ok" THEN k
        ELSE LET x == Intersect(node.value_schema, operand.value_schema)
             IN  IF x.status # "ok" THEN x
                 ELSE Returned(AbstractDictNode(k.node, x.node))

\* AbstractListNode.intersect_like
AbstractListIntersectLike(node, operand) ==
    LET x == Intersect(node.item_schema, operand.item_schema)
    IN  IF x.status # "ok" THEN x ELSE Returned(AbstractListNode(x.node))

\* UnionNode.intersect_like reads self.schema, an attribute no UnionNode has
\* (__init__ sets self.schemas).
UnionIntersectLike(node, operand) == Raised("AttributeError")

\* AbstractBranchNode.intersect
AbstractBranchIntersect(node, operand) ==
    IF operand.cls = "AbstractAnyNode" THEN Returned(node)
    ELSE IF operand.cls = node.cls
    THEN CASE node.cls = "AbstractDictNode" ->
                AbstractDictIntersectLike(node, operand)
           [] node.cls = "AbstractListNode" ->
                AbstractListIntersectLike(node, operand)
           [] node.cls = "UnionNode" -> UnionIntersectLike(node, operand)
    ELSE IF operand.cls \in BranchCls /\ Pytype(operand) = Pytype(node)
    THEN Returned(operand)
    ELSE Raised("IRNodeError")

\* node.intersect(operand), by the class of node.
Intersect(node, operand) ==
    CASE node.cls \in LiteralCls -> LiteralIntersect(node, operand)
      [] node.cls = "AbstractAnyNode" -> AbstractAnyIntersect(node, operand)
      [] node.cls \in AbstractLiteralCls \ {"AbstractAnyNode"} ->
            AbstractLiteralIntersect(node, operand)
      [] node.cls \in BranchCls -> BranchIntersect(node, operand)
      [] node.cls \in AbstractBranchCls -> AbstractBranchIntersect(node, operand)
      [] OTHER -> Raised("NotImplementedError")

(***************************************************************************)
(* The registries and resolution.  A registry is a function from the keys  *)
(* bound in it (Python types, by name) to class names.                     *)
(***************************************************************************)
\* Values outside the pytree alphabet: a tuple, a set, None.
TupleV == [kind |-> "tuple", n |-> 0, items |-> <<>>]
SetV == [kind |-> "set", n |-> 0, items |-> <<>>]
NoneV == [kind |-> "NoneType", n |-> 0, items |-> <<>>]

\* The types whose instances have no hash.
Unhashable == {"list", "dict", "set"}

\* The pytype argument of a class statement: a type, AbstractType(a type),
\* none, or something that is neither (here a str).
PytypeArg(form, t) == [origin |-> form, name |-> t, args |-> <<>>]

\* registry[key] = cls
Bind(registry, key, cls) ==
    [k \in DOMAIN registry \cup {key} |-> IF k = key THEN cls ELSE registry[k]]

\* IRSchemaNode.__init_subclass__(cls, pytype) on the two registries: the
\* status and the registries it leaves.
InitSubclass(registry, abstract_registry, cls, pytype) ==
    IF pytype.origin = "NoPytype"
    THEN [status |-> "ok", node_registry |-> registry,
          abstract_node_registry |-> abstract_registry]
    ELSE IF pytype.origin = "type"
    THEN [status |-> "ok", node_registry |-> Bind(registry, pytype.name, cls),
          abstract_node_registry |-> abstract_registry]
    ELSE IF pytype.origin = "AbstractType"
    THEN [status |-> "ok", node_registry |-> registry,
          abstract_node_registry |-> Bind(abstract_registry, pytype.name, cls)]
    ELSE [status |-> "IRNodeError", node_registry |-> registry,
          abstract_node_registry |-> abstract_registry]

\* IRSchemaNode.from_type(obj) for obj a value: the class bound to type(obj);
\* else `obj in _abstract_node_registry` hashes obj, which raises TypeError for
\* an unhashable one, and finds no value among the markers.
FromType(registry, abstract_registry, obj) ==
    IF obj.kind \in DOMAIN registry THEN registry[obj.kind]
    ELSE IF obj.kind \in Unhashable THEN "TypeError"
    ELSE "IRNodeError"

\* IRSchemaNode.from_type(obj) for obj a type or a typing form, named t: its
\* own type (type, or typing's) is bound in no registry, so the abstract
\* registry decides.
FromTypeOfMarker(registry, abstract_registry, t) ==
    IF t \in DOMAIN abstract_registry
    THEN abstract_registry[t] ELSE "IRNodeError"

(***************************************************************************)
(* pytree_to_schema, on the registries as the module leaves them.          *)
(***************************************************************************)
RECURSIVE PytreeToSchema(_)
RECURSIVE ItemSchemasFrom(_, _, _)
RECURSIVE KeySchemasFrom(_, _, _)

\* [pytree_to_schema(item) for item in pytree], from the i-th item on.
ItemSchemasFrom(pytree, i, item_schemas) ==
    IF i > Len(pytree.items) THEN Returned(ListNode(item_schemas))
    ELSE LET r == PytreeToSchema(pytree.items[i])
         IN  IF r.status # "ok" THEN r
             ELSE ItemSchemasFrom(pytree, i + 1, Append(item_schemas, r.node))

\* {LiteralNode(key): pytree_to_schema(value) for key, value in
\* pytree.items()}, from the i-th entry on; LiteralNode(key) resolves the class
\* by from_type(key).
KeySchemasFrom(pytree, i, key_schemas) ==
    IF i > Len(pytree.items) THEN Returned(DictNode(key_schemas))
    ELSE LET key == pytree.items[i].key
             node_cls == FromType(NodeRegistry, AbstractNodeRegistry, key)
         IN  IF node_cls \in {"IRNodeError", "TypeError"} THEN Raised(node_cls)
             ELSE LET r == PytreeToSchema(pytree.items[i].val)
                  IN  IF r.status # "ok" THEN r
                      ELSE KeySchemasFrom(pytree, i + 1,
                              Append(key_schemas,
                                     Entry([cls |-> node_cls, value |-> key],
                                           r.node)))

\* pytree_to_schema
PytreeToSchema(pytree) ==
    IF pytree.kind = "list" THEN ItemSchemasFrom(pytree, 1, <<>>)
    ELSE IF pytree.kind = "dict" THEN KeySchemasFrom(pytree, 1, <<>>)
    ELSE LET node_cls == FromType(NodeRegistry, AbstractNodeRegistry, pytree)
         IN  IF node_cls \in {"IRNodeError", "TypeError"} THEN Raised(node_cls)
             ELSE Returned([cls |-> node_cls, value |-> pytree])

(***************************************************************************)
(* type_hint_to_schema.  A type hint is [origin, name, args]: origin is    *)
(* get_origin(type_hint) ("None" for a bare type or typing form, which     *)
(* name names) and args is get_args(type_hint).  A value passed for a type *)
(* hint has no origin and no name; args holds the value.                   *)
(***************************************************************************)
NoHint == [origin |-> "none", name |-> "", args |-> <<>>]
Bare(t) == [origin |-> "None", name |-> t, args |-> <<>>]
ListOf(s) == [origin |-> "list", name |-> "", args |-> s]
DictOf(s) == [origin |-> "dict", name |-> "", args |-> s]
UnionOf(s) == [origin |-> "Union", name |-> "", args |-> s]
ValueHint(x) == [origin |-> "None", name |-> "", args |-> <<x>>]

\* node_class() that falls back on AbstractAnyNode for every class.
NewNodeAny(node_class) == Returned(AbstractAnyNode)

\* node_class(), the class called with no argument: the abstract literal
\* classes have defaults for all their parameters, the others have not.
NewNode(node_class) ==
    CASE node_class = "AbstractIntNode" -> Returned(AbstractIntNode(None, None))
      [] node_class = "AbstractFloatNode" ->
            Returned(AbstractFloatNode(None, None))
      [] node_class = "AbstractBoolNode" -> Returned(AbstractBoolNode)
      [] node_class = "AbstractStrNode" -> Returned(AbstractStrNode)
      [] node_class = "AbstractAnyNode" -> Returned(AbstractAnyNode)
      [] OTHER -> Raised("TypeError")

RECURSIVE TypeHintToSchema(_)
RECURSIVE UnionSchemasFrom(_, _, _)

\* [type_hint_to_schema(arg) for arg in args], from the i-th arg on.
UnionSchemasFrom(type_hint, i, schemas) ==
    IF i > Len(type_hint.args) THEN Returned(UnionNode(schemas))
    ELSE LET r == TypeHintToSchema(type_hint.args[i])
         IN  IF r.status # "ok" THEN r
             ELSE UnionSchemasFrom(type_hint, i + 1, Append(schemas, r.node))

\* type_hint_to_schema
TypeHintToSchema(type_hint) ==
    CASE type_hint.origin = "Union" -> UnionSchemasFrom(type_hint, 1, <<>>)
      [] type_hint.origin = "list" ->
            IF Len(type_hint.args) < 1 THEN Raised("IndexError")
            ELSE LET item_schema == TypeHintToSchema(type_hint.args[1])
                 IN  IF item_schema.status # "ok" THEN item_schema
                     ELSE Returned(AbstractListNode(item_schema.node))
      [] type_hint.origin = "dict" ->
            IF Len(type_hint.args) < 1 THEN Raised("IndexError")
            ELSE LET key_schema == TypeHintToSchema(type_hint.args[1])
                 IN  IF key_schema.status # "ok" THEN key_schema
                     ELSE IF Len(type_hint.args) < 2 THEN Raised("IndexError")
                     ELSE LET value_schema ==
                                  TypeHintToSchema(type_hint.args[2])
                          IN  IF value_schema.status # "ok" THEN value_schema
                              ELSE Returned(AbstractDictNode(key_schema.node,
                                                             value_schema.node))
      [] OTHER ->
            LET node_class ==
                    IF type_hint.name = ""
                    THEN FromType(NodeRegistry, AbstractNodeRegistry,
                                  type_hint.args[1])
                    ELSE FromTypeOfMarker(NodeRegistry, AbstractNodeRegistry,
                                          type_hint.name)
            IN  IF node_class \in {"IRNodeError", "TypeError"}
                THEN Raised(node_class)
                ELSE NewNode(node_class)

(***************************************************************************)
(* The explored inputs of resolution and derivation.                       *)
(***************************************************************************)
MaxAlts == 3
MaxClasses == 3

\* Values for from_type: the leaves, a list, a dict, and three values outside
\* the alphabet.
FromTypeValues ==
    Leaves \cup {NaN, ListV(<<>>), DictV(<<>>), TupleV, SetV, NoneV}

\* Types and typing forms for from_type; tuple is bound in no registry.
Markers == DOMAIN AbstractNodeRegistry \cup {"tuple"}

\* Pytrees for pytree_to_schema: the explored values, pytrees that hold a
\* NaN, and the values outside the alphabet.
NaNValues ==
    {NaN, ListV(<<NaN>>), ListV(<<IntV(0), NaN>>),
     DictV(<<Entry(StrV(1), NaN)>>), ListV(<<DictV(<<Entry(IntV(1), NaN)>>)>>)}
SchemaValues == Values \cup NaNValues \cup {TupleV, SetV, NoneV, ListV(<<SetV>>)}

\* Type hints: bare names, List[...] and Dict[..., ...] of them, Union[...]
\* of two to MaxAlts different hints (typing flattens a Union and drops its
\* repeated arguments, and takes no bare Union for a parameter), and List /
\* Dict of a Union; typing.List and typing.Dict with no parameter have the
\* origin and no args.
BareHints == {Bare(t) : t \in Markers}
ArgHints == BareHints \ {Bare("Union")}
FlatHints ==
    BareHints \cup {ListOf(<<a>>) : a \in ArgHints}
        \cup {DictOf(<<k, x>>) : k, x \in ArgHints}
        \cup {ListOf(<<>>), DictOf(<<>>)}
AltHints ==
    {Bare("int"), Bare("str"), Bare("tuple"),
     ListOf(<<Bare("str")>>), DictOf(<<Bare("str"), Bare("int")>>)}
UnionHints ==
    {UnionOf(s) : s \in {t \in SeqsUpTo(AltHints, MaxAlts) :
        Len(t) >= 2 /\ \A i, j \in 1..Len(t) : i # j => t[i] # t[j]}}
TypeHints ==
    FlatHints \cup UnionHints \cup {ListOf(<<u>>) : u \in UnionHints}
        \cup {DictOf(<<Bare("str"), u>>) : u \in UnionHints}
        \cup {ValueHint(x) : x \in {IntV(MaxInt), StrV(1), ListV(<<>>), NoneV}}

\* Class statements: two new classes, each with a pytype that is a bound or an
\* unbound type, AbstractType of one, none, or a str.
UserClasses == {"UserNodeA", "UserNodeB"}
PytypeArgs ==
    {PytypeArg(form, t) : form \in {"type", "AbstractType"},
                           t \in {"int", "tuple"}}
        \cup {PytypeArg("NoPytype", ""), PytypeArg("str", "int")}

(***************************************************************************)
(* IR/nodes.py, the SchemaNode family.  A Literal is [cls, value], the     *)
(* value NoneV when the node is unbound; a DictNode, a ListNode and an     *)
(* AnyOfNode are [cls, children], a DictNode's children the entries of its *)
(* dict in order.                                                          *)
(***************************************************************************)
Literal(c, x) == [cls |-> c, value |-> x]
IRDictNode(s) == [cls |-> "DictNode", children |-> s]
IRListNode(s) == [cls |-> "ListNode", children |-> s]
AnyOfNode(s) == [cls |-> "AnyOfNode", children |-> s]

\* A generator consumed to its end, list(generator): what it yielded, or the
\* exception that consuming it raised.
Yielded(s) == [status |-> "ok", yielded |-> s]
Thrown(exc) == [status |-> exc, yielded |-> <<>>]

\* self.children.values() of a DictNode, self.children of the others
ChildrenReversed(node) ==
    [i \in 1..Len(node.children) |->
        IF node.cls = "DictNode"
        THEN node.children[Len(node.children) + 1 - i].val
        ELSE node.children[Len(node.children) + 1 - i]]
Children(node) ==
    IF node.cls = "DictNode"
    THEN [i \in 1..Len(node.children) |-> node.children[i].val]
    ELSE node.children

RECURSIVE Walk(_)
RECURSIVE WalkFrom(_, _)

\* Literal.walk: the one pair of the empty path and the node
LiteralWalkNothing(node) == <<>>
LiteralWalk(node) == << [path |-> <<>>, node |-> node] >>

\* The loops of DictNode.walk, ListNode.walk and AnyOfNode.walk from the i-th
\* child on: each pair the child's walk yields, its path behind self.
WalkFrom(node, i) ==
    IF i > Len(Children(node)) THEN <<>>
    ELSE LET pairs == Walk(Children(node)[i])
         IN  [k \in 1..Len(pairs) |->
                 [path |-> <<node>> \o pairs[k].path, node |-> pairs[k].node]]
             \o WalkFrom(node, i + 1)

Walk(node) ==
    IF "value" \in DOMAIN node THEN LiteralWalk(node) ELSE WalkFrom(node, 1)

\* A callable in a transform registry: the function, and the instance it is
\* bound to when it is a bound method (NoNode for a plain function).  An
\* instance is told by its structure.
Operand(fn, bound) == [fn |-> fn, bound |-> bound]

\* SchemaNode._transforms_list, one set shared by all classes, and each
\* class's _transform_registry, once the module's classes are defined: every
\* Literal subclass has registered its two transforms.
StartupTransforms ==
    [transforms_list |-> {"convert_to_unbound_schema", "visualize_types"},
     registry |->
        [c \in {"IntNode", "StringNode", "BoolNode", "FloatNode",
                "DictNode", "ListNode", "AnyOfNode"} |->
            IF c \in {"IntNode", "StringNode", "BoolNode", "FloatNode"}
            THEN [n \in {"convert_to_unbound_schema", "visualize_types"} |->
                    IF n = "visualize_types"
                    THEN Operand("visualize_types", NoNode)
                    ELSE Operand("transform_to_unbound_schema", NoNode)]
            ELSE [n \in {} |-> Operand("", NoNode)]]]

\* cls.register_transform(name, operand)
RegisterTransform(transforms, cls, name, operand) ==
    [transforms_list |-> transforms.transforms_list \cup {name},
     registry |-> [transforms.registry EXCEPT ![cls] = Bind(@, name, operand)]]

RECURSIVE LastAnyOf(_)

\* The AnyOfNode constructed last when the expression of a tree is evaluated,
\* children before their parent and in their order; NoNode if it has none.
LastAnyOf(node) ==
    IF "value" \in DOMAIN node THEN NoNode
    ELSE IF node.cls = "AnyOfNode" THEN node
    ELSE LET with == {i \in 1..Len(Children(node)) :
                         LastAnyOf(Children(node)[i]) # NoNode}
         IN  IF with = {} THEN NoNode
             ELSE LastAnyOf(Children(node)[CHOOSE i \in with :
                                              \A j \in with : j <= i])

\* The registries after a tree is constructed: each AnyOfNode.__init__
\* registers its own separate_transform, the last one stays.
Construct(transforms, node) ==
    IF LastAnyOf(node) = NoNode THEN transforms
    ELSE RegisterTransform(transforms, "AnyOfNode", "SplitTreesOnOptions",
                           Operand("separate_transform", LastAnyOf(node)))

RECURSIVE Product(_)

\* itertools.product(*values_generators), results the lists the generators
\* yield: the last one varies fastest.
Product(results) ==
    IF results = <<>> THEN << <<>> >>
    ELSE LET first == Head(results)
             rest == Product(Tail(results))
         IN  [k \in 1..(Len(first) * Len(rest)) |->
                 <<first[((k - 1) \div Len(rest)) + 1]>>
                     \o rest[((k - 1) % Len(rest)) + 1]]

\* AnyOfNode.separate_transform: each child, in order
SeparateTransformWhole(node) == Yielded(<<node>>)
SeparateTransform(node) == Yielded(node.children)

RECURSIVE Transform(_, _, _)
RECURSIVE CallOperand(_, _, _, _, _)
RECURSIVE DefaultTransform(_, _, _)

\* default_transform(**directives), the directives none (transform_name "")
\* or transform_name and data.  A Literal yields itself.  The others call
\* child.transform(**directives) for each child, which needs transform_name
\* and data, and yield a node of their kind for each tuple of the product,
\* DictNode(dict(zip(self.children.keys(), tree_case))) or
\* ListNode(list(tree_case)) or AnyOfNode(list(tree_case)); product consumes
\* the generators in order, so the first child's exception is the one raised.
DefaultTransform(node, transform_name, transforms) ==
    IF "value" \in DOMAIN node THEN Yielded(<<node>>)
    ELSE IF Children(node) # <<>> /\ transform_name = ""
    THEN Thrown("TypeError")
    ELSE LET values_generators ==
                 [i \in 1..Len(Children(node)) |->
                     Transform(Children(node)[i], transform_name, transforms)]
             failed == {i \in 1..Len(Children(node)) :
                           values_generators[i].status # "ok"}
             cases == Product([i \in 1..Len(Children(node)) |->
                                  values_generators[i].yielded])
         IN  IF failed # {}
             THEN Thrown(values_generators[
                      CHOOSE i \in failed : \A j \in failed : i <= j].status)
             ELSE Yielded([k \in 1..Len(cases) |->
                     IF node.cls = "DictNode"
                     THEN IRDictNode([i \in 1..Len(cases[k]) |->
                              Entry(node.children[i].key, cases[k][i])])
                     ELSE [cls |-> node.cls, children |-> cases[k]]])

\* A call of an operand with `positional` positional arguments, the first of
\* them receiver when the operand is a plain function: TypeError when the
\* operand takes fewer, else what the function yields.  The registered
\* functions are declared (self, **directives) and take one; a bound method
\* (**directives) has its self filled and takes none.  visualize_types
\* yields a StringNode of the class's name, a str.
CallOperand(operand, receiver, positional, transform_name, transforms) ==
    IF positional > (IF operand.bound = NoNode THEN 1 ELSE 0)
    THEN Thrown("TypeError")
    ELSE LET target == IF operand.bound = NoNode THEN receiver
                       ELSE operand.bound
         IN  CASE operand.fn = "transform_to_unbound_schema" ->
                      Yielded(<<Literal(target.cls, NoneV)>>)
               [] operand.fn = "visualize_types" ->
                      Yielded(<<Literal("StringNode", StrV(0))>>)
               [] operand.fn = "separate_transform" ->
                      SeparateTransform(target)
               [] OTHER ->
                      DefaultTransform(target, transform_name, transforms)

\* SchemaNode.transform(transform_name, data): the class's registered operand
\* or the bound self.default_transform, called as operand(self, data).
Transform(node, transform_name, transforms) ==
    LET registry == transforms.registry[node.cls]
        operand == IF transform_name \in DOMAIN registry
                   THEN registry[transform_name]
                   ELSE Operand("default_transform", node)
    IN  CallOperand(operand, node, 2, "", transforms)

(***************************************************************************)
(* The engine as its caller sees it: one call at a time, on nodes and      *)
(* pytrees of the explored sets.  result is what the call returned or      *)
(* raised; calls counts the alternatives a UnionNode receiver validated.   *)
(* held is what the caller keeps between calls: a SchemaNode tree, or two  *)
(* IRSchemaNode nodes a and b; walked is what the first walk of the held   *)
(* tree yielded, and whether a tree was constructed or transformed since;  *)
(* yielded is what the generator of the call yielded;                      *)
(* transform_name is the name the call passed; transforms is the           *)
(* SchemaNode classes' transform registries.                               *)
(***************************************************************************)
VARIABLES pc, op, self, other, pytree, result, calls,
          hint, node_registry, abstract_node_registry, defined,
          held, walked, yielded, transform_name, transforms

vars == <<pc, op, self, other, pytree, result, calls,
          hint, node_registry, abstract_node_registry, defined,
          held, walked, yielded, transform_name, transforms>>
registries == <<node_registry, abstract_node_registry, defined>>

NoneHeld == [tree |-> NoNode, a |-> NoNode, b |-> NoNode]

NoValue == [kind |-> "None", n |-> 0, items |-> <<>>]
Result(st, e, x) == [status |-> st, path |-> e.path, msg |-> e.msg, node |-> x]
NoResult == Result("none", Ok, NoNode)

Init ==
    /\ pc = "idle"
    /\ op = "none"
    /\ self = NoNode
    /\ other = NoNode
    /\ pytree = NoValue
    /\ result = NoResult
    /\ calls = 0
    /\ hint = NoHint
    /\ node_registry = NodeRegistry
    /\ abstract_node_registry = AbstractNodeRegistry
    /\ defined = 0
    /\ held = NoneHeld
    /\ walked = [done |-> FALSE, pairs |-> <<>>, between |-> FALSE]
    /\ yielded = <<>>
    /\ transform_name = ""
    /\ transforms = StartupTransforms

\* self.test(pytree)
CallTest ==
    /\ pc = "idle"
    /\ \E node \in Nodes, x \in Values :
        /\ self' = node
        /\ pytree' = x
        /\ result' = Result(TestR(node, x), Ok, NoNode)
    /\ pc' = "done"
    /\ op' = "test"
    /\ other' = NoNode
    /\ calls' = 0
    /\ hint' = NoHint
    /\ UNCHANGED <<registries, held, walked, yielded, transform_name,
                   transforms>>

\* self.validate(pytree)
CallValidate ==
    /\ pc = "idle"
    /\ \E node \in Nodes, x \in Values :
        /\ self' = node
        /\ pytree' = x
        /\ LET e == Validate(node, x) IN result' = Result(e.status, e, NoNode)
        /\ calls' = IF node.cls = "UnionNode"
                    THEN UnionValidateCalls(node, x, 1) ELSE 0
    /\ pc' = "done"
    /\ op' = "validate"
    /\ other' = NoNode
    /\ hint' = NoHint
    /\ UNCHANGED <<registries, held, walked, yielded, transform_name,
                   transforms>>

\* self.intersect(other)
CallIntersect ==
    /\ pc = "idle"
    /\ \E node \in Nodes, operand \in Nodes :
        /\ self' = node
        /\ other' = operand
        /\ LET r == Intersect(node, operand)
           IN  result' = Result(r.status, Ok, r.node)
    /\ pc' = "done"
    /\ op' = "intersect"
    /\ pytree' = NoValue
    /\ calls' = 0
    /\ hint' = NoHint
    /\ UNCHANGED <<registries, held, walked, yielded, transform_name,
                   transforms>>

\* The caller takes the result and is ready for the next call.
Return ==
    /\ pc = "done"
    /\ pc' = "idle"
    /\ op' = "none"
    /\ self' = NoNode
    /\ other' = NoNode
    /\ pytree' = NoValue
    /\ result' = NoResult
    /\ calls' = 0
    /\ hint' = NoHint
    /\ yielded' = <<>>
    /\ transform_name' = ""
    /\ UNCHANGED <<registries, held, walked, transforms>>

\* What from_type returns or raises, as a result: the class is the node field.
ClassResult(c) ==
    IF c \in {"IRNodeError", "TypeError"}
    THEN Result(c, Ok, NoNode) ELSE Result("ok", Ok, [cls |-> c])

\* IRSchemaNode.from_type(pytree), the argument a value
CallFromType ==
    /\ pc = "idle"
    /\ \E obj \in FromTypeValues :
        /\ pytree' = obj
        /\ result' = ClassResult(
                FromType(node_registry, abstract_node_registry, obj))
    /\ pc' = "done"
    /\ op' = "from_type"
    /\ self' = NoNode
    /\ other' = NoNode
    /\ calls' = 0
    /\ hint' = NoHint
    /\ UNCHANGED <<registries, held, walked, yielded, transform_name,
                   transforms>>

\* IRSchemaNode.from_type(hint), the argument a type or a typing form
CallFromTypeOfMarker ==
    /\ pc = "idle"
    /\ \E t \in Markers :
        /\ hint' = Bare(t)
        /\ result' = ClassResult(
                FromTypeOfMarker(node_registry, abstract_node_registry, t))
    /\ pc' = "done"
    /\ op' = "from_type"
    /\ self' = NoNode
    /\ other' = NoNode
    /\ pytree' = NoValue
    /\ calls' = 0
    /\ UNCHANGED <<registries, held, walked, yielded, transform_name,
                   transforms>>

\* pytree_to_schema(pytree)
CallPytreeToSchema ==
    /\ pc = "idle"
    /\ \E x \in SchemaValues :
        /\ pytree' = x
        /\ LET r == PytreeToSchema(x)
           IN  result' = Result(r.status, Ok, r.node)
    /\ pc' = "done"
    /\ op' = "pytree_to_schema"
    /\ self' = NoNode
    /\ other' = NoNode
    /\ calls' = 0
    /\ hint' = NoHint
    /\ UNCHANGED <<registries, held, walked, yielded, transform_name,
                   transforms>>

\* type_hint_to_schema(hint)
CallTypeHintToSchema ==
    /\ pc = "idle"
    /\ \E h \in TypeHints :
        /\ hint' = h
        /\ LET r == TypeHintToSchema(h)
           IN  result' = Result(r.status, Ok, r.node)
    /\ pc' = "done"
    /\ op' = "type_hint_to_schema"
    /\ self' = NoNode
    /\ other' = NoNode
    /\ pytree' = NoValue
    /\ calls' = 0
    /\ UNCHANGED <<registries, held, walked, yielded, transform_name,
                   transforms>>

\* class cls(IRSchemaNode, pytype=...): __init_subclass__ runs; self is the
\* class and hint the pytype argument.
DefineSubclass ==
    /\ pc = "idle"
    /\ defined < MaxClasses
    /\ \E cls \in UserClasses, pytype \in PytypeArgs :
        LET r == InitSubclass(node_registry, abstract_node_registry,
                              cls, pytype)
        IN  /\ self' = [cls |-> cls]
            /\ hint' = pytype
            /\ node_registry' = r.node_registry
            /\ abstract_node_registry' = r.abstract_node_registry
            /\ result' = Result(r.status, Ok, NoNode)
    /\ defined' = defined + 1
    /\ pc' = "done"
    /\ op' = "define"
    /\ other' = NoNode
    /\ pytree' = NoValue
    /\ calls' = 0
    /\ UNCHANGED <<held, walked, yielded, transform_name, transforms>>

\* hash(node) of a LiteralNode, hash(hash(self.value) + hash(self.pytype)),
\* and of an AbstractLiteralNode, hash(self.hash_special_cases() +
\* hash(self.pytype)), as far as it tells nodes apart: n is the sum of the
\* hashes of the numbers (hash(n) is n, hash(n.0) is n, hash(True) is 1),
\* none counts the hash(None) in the sum, str is the str whose hash is in it,
\* type the pytype whose hash is in it.
NodeHash(node) ==
    IF node.cls \in LiteralCls
    THEN [n |-> IF node.value.kind = "str" THEN 0 ELSE node.value.n,
          none |-> 0,
          str |-> IF node.value.kind = "str" THEN node.value.n ELSE 0,
          type |-> node.value.kind]
    ELSE IF node.cls \in {"AbstractIntNode", "AbstractFloatNode"}
    THEN [n |-> (IF node.min_value = None THEN 0 ELSE node.min_value)
                 + (IF node.max_value = None THEN 0 ELSE node.max_value),
          none |-> (IF node.min_value = None THEN 1 ELSE 0)
                    + (IF node.max_value = None THEN 1 ELSE 0),
          str |-> 0,
          type |-> Pytype(node)]
    ELSE [n |-> 0, none |-> 0, str |-> 0, type |-> Pytype(node)]

\* self == other, both literal or abstract literal nodes:
\* hash(self) == hash(other)
CallEq ==
    /\ pc = "idle"
    /\ \E node, operand \in LeafNodes :
        /\ self' = node
        /\ other' = operand
        /\ result' = Result(PyBool(NodeHash(node) = NodeHash(operand)),
                            Ok, NoNode)
    /\ pc' = "done"
    /\ op' = "eq"
    /\ pytree' = NoValue
    /\ calls' = 0
    /\ hint' = NoHint
    /\ UNCHANGED <<registries, held, walked, yielded, transform_name,
                   transforms>>

\* The engine in use: the classes of the module are defined, and the caller
\* tests, validates, intersects, compares, resolves and derives.
Next ==
    \/ CallTest \/ CallValidate \/ CallIntersect \/ CallEq
    \/ CallFromType \/ CallFromTypeOfMarker
    \/ CallPytreeToSchema \/ CallTypeHintToSchema
    \/ Return

Spec == Init /\ [][Next]_vars

\* The registries under further class statements, and resolution on them.
RegistryNext ==
    \/ DefineSubclass \/ CallFromType \/ CallFromTypeOfMarker \/ Return

RegistrySpec == Init /\ [][RegistryNext]_vars

(***************************************************************************)
(* The caller keeps nodes between calls.  The trees are of up to MaxLen    *)
(* children, leaves or one of three inner nodes.                           *)
(***************************************************************************)
Trees ==
    LET leaves == {Literal("IntNode", IntV(1)), Literal("StringNode", StrV(1))}
        dict(s) == IRDictNode([i \in 1..Len(s) |-> Entry(StrV(i), s[i])])
        inner == {AnyOfNode(<<Literal("IntNode", IntV(1)),
                              Literal("StringNode", StrV(1))>>),
                  dict(<<Literal("IntNode", IntV(1)),
                         Literal("StringNode", StrV(1))>>),
                  IRListNode(<<>>)}
    IN  leaves
        \cup UNION {{dict(s), IRListNode(s), AnyOfNode(s)} :
                        s \in SeqsUpTo(leaves, MaxLen)}
        \cup UNION {{dict(<<c>>), IRListNode(<<c>>),
                     AnyOfNode(<<c, Literal("IntNode", IntV(1))>>)} :
                        c \in inner}

\* An expression that constructs a tree is evaluated; the caller keeps the
\* tree if it holds nothing.
ConstructTree ==
    /\ pc = "idle"
    /\ \E t \in Trees :
        /\ self' = t
        /\ result' = Result("ok", Ok, t)
        /\ transforms' = Construct(transforms, t)
        /\ held' = IF held = NoneHeld THEN [held EXCEPT !.tree = t] ELSE held
    /\ walked' = [walked EXCEPT !.between = walked.done]
    /\ pc' = "done"
    /\ op' = "construct"
    /\ other' = NoNode
    /\ pytree' = NoValue
    /\ calls' = 0
    /\ hint' = NoHint
    /\ UNCHANGED <<registries, yielded, transform_name>>

\* list(held.walk())
CallWalk ==
    /\ pc = "idle"
    /\ held.tree # NoNode
    /\ self' = held.tree
    /\ yielded' = Walk(held.tree)
    /\ walked' = IF walked.done THEN walked
                 ELSE [done |-> TRUE, pairs |-> Walk(held.tree),
                       between |-> FALSE]
    /\ result' = Result("ok", Ok, NoNode)
    /\ pc' = "done"
    /\ op' = "walk"
    /\ other' = NoNode
    /\ pytree' = NoValue
    /\ calls' = 0
    /\ hint' = NoHint
    /\ UNCHANGED <<registries, held, transform_name, transforms>>

\* list(held.transform(transform_name, None)).  Each AnyOfNode that a
\* default transform yields was constructed, the last one last.
CallTransform ==
    /\ pc = "idle"
    /\ held.tree # NoNode
    /\ \E name \in {"convert_to_unbound_schema", "SplitTreesOnOptions",
                     "unregistered"} :
        LET r == Transform(held.tree, name, transforms)
        IN  /\ transform_name' = name
            /\ result' = Result(r.status, Ok, NoNode)
            /\ yielded' = r.yielded
            /\ transforms' =
                    IF /\ name \notin DOMAIN transforms.registry[held.tree.cls]
                       /\ r.status = "ok" /\ r.yielded # <<>>
                       /\ held.tree.cls = "AnyOfNode"
                    THEN Construct(transforms, r.yielded[Len(r.yielded)])
                    ELSE transforms
    /\ self' = held.tree
    /\ pc' = "done"
    /\ op' = "transform"
    /\ other' = NoNode
    /\ pytree' = NoValue
    /\ calls' = 0
    /\ hint' = NoHint
    /\ walked' = [walked EXCEPT !.between = walked.done]
    /\ UNCHANGED <<registries, held>>

\* list(held.default_transform()) and
\* list(held.default_transform(transform_name=..., data=None)).  Each
\* AnyOfNode it yields was constructed, the last one last.
CallDefaultTransform ==
    /\ pc = "idle"
    /\ held.tree # NoNode
    /\ \E name \in {"", "convert_to_unbound_schema", "unregistered"} :
        LET r == CallOperand(Operand("default_transform", held.tree),
                             held.tree, 0, name, transforms)
        IN  /\ transform_name' = name
            /\ result' = Result(r.status, Ok, NoNode)
            /\ yielded' = r.yielded
            /\ transforms' =
                    IF /\ r.status = "ok" /\ r.yielded # <<>>
                       /\ held.tree.cls = "AnyOfNode"
                    THEN Construct(transforms, r.yielded[Len(r.yielded)])
                    ELSE transforms
    /\ self' = held.tree
    /\ pc' = "done"
    /\ op' = "default_transform"
    /\ other' = NoNode
    /\ pytree' = NoValue
    /\ calls' = 0
    /\ hint' = NoHint
    /\ walked' = [walked EXCEPT !.between = walked.done]
    /\ UNCHANGED <<registries, held>>

\* list(held.separate_transform()), held an AnyOfNode
CallSeparateTransform ==
    /\ pc = "idle"
    /\ held.tree # NoNode
    /\ held.tree.cls = "AnyOfNode"
    /\ LET r == CallOperand(Operand("separate_transform", held.tree),
                            held.tree, 0, "", transforms)
       IN  /\ result' = Result(r.status, Ok, NoNode)
           /\ yielded' = r.yielded
    /\ self' = held.tree
    /\ pc' = "done"
    /\ op' = "separate_transform"
    /\ other' = NoNode
    /\ pytree' = NoValue
    /\ calls' = 0
    /\ hint' = NoHint
    /\ walked' = [walked EXCEPT !.between = walked.done]
    /\ UNCHANGED <<registries, held, transform_name, transforms>>

\* The caller constructs two IRSchemaNode nodes and keeps them.
HoldNodes ==
    /\ pc = "idle"
    /\ held = NoneHeld
    /\ \E a, b \in {LiteralNode(IntV(1)), AbstractIntNode(0, None),
                     AbstractIntNode(None, MaxInt), AbstractAnyNode,
                     DictNode(<<Entry(LiteralNode(StrV(1)),
                                      AbstractIntNode(0, None))>>),
                     DictNode(<<Entry(LiteralNode(StrV(1)),
                                      AbstractIntNode(None, MaxInt))>>)} :
        /\ held' = [tree |-> NoNode, a |-> a, b |-> b]
        /\ self' = a
        /\ other' = b
    /\ result' = Result("ok", Ok, NoNode)
    /\ pc' = "done"
    /\ op' = "construct"
    /\ pytree' = NoValue
    /\ calls' = 0
    /\ hint' = NoHint
    /\ UNCHANGED <<registries, walked, yielded, transform_name, transforms>>

\* held.a.test(pytree): test assigns no attribute
CallHeldTest ==
    /\ pc = "idle"
    /\ held.a # NoNode
    /\ \E x \in {IntV(1), StrV(1), DictV(<<Entry(StrV(1), IntV(1))>>)} :
        /\ pytree' = x
        /\ result' = Result(TestR(held.a, x), Ok, NoNode)
    /\ self' = held.a
    /\ pc' = "done"
    /\ op' = "test"
    /\ other' = NoNode
    /\ calls' = 0
    /\ hint' = NoHint
    /\ UNCHANGED <<registries, held, walked, yielded, transform_name,
                   transforms>>

\* held.a.validate(pytree): validate assigns no attribute
CallHeldValidate ==
    /\ pc = "idle"
    /\ held.a # NoNode
    /\ \E x \in {IntV(1), StrV(1), DictV(<<Entry(StrV(1), IntV(1))>>)} :
        /\ pytree' = x
        /\ LET e == Validate(held.a, x) IN result' = Result(e.status, e, NoNode)
    /\ self' = held.a
    /\ pc' = "done"
    /\ op' = "validate"
    /\ other' = NoNode
    /\ calls' = 0
    /\ hint' = NoHint
    /\ UNCHANGED <<registries, held, walked, yielded, transform_name,
                   transforms>>

\* self and other once self.intersect(other) has returned or raised: the
\* merged bounds and the merged schema go to a new node, or self itself is
\* returned; no attribute of self or other is assigned.
AfterIntersectInPlace(node, operand) ==
    [self |-> IF Intersect(node, operand).status = "ok"
              THEN Intersect(node, operand).node ELSE node,
     other |-> operand]
AfterIntersect(node, operand) == [self |-> node, other |-> operand]

\* held.a.intersect(held.b)
CallHeldIntersect ==
    /\ pc = "idle"
    /\ held.a # NoNode
    /\ LET r == Intersect(held.a, held.b)
       IN  result' = Result(r.status, Ok, r.node)
    /\ held' = [held EXCEPT !.a = AfterIntersect(held.a, held.b).self,
                            !.b = AfterIntersect(held.a, held.b).other]
    /\ self' = held.a
    /\ other' = held.b
    /\ pc' = "done"
    /\ op' = "intersect"
    /\ pytree' = NoValue
    /\ calls' = 0
    /\ hint' = NoHint
    /\ UNCHANGED <<registries, walked, yielded, transform_name, transforms>>

\* The caller drops what it holds.
Release ==
    /\ pc = "idle"
    /\ held # NoneHeld
    /\ held' = NoneHeld
    /\ walked' = [done |-> FALSE, pairs |-> <<>>, between |-> FALSE]
    /\ UNCHANGED <<pc, op, self, other, pytree, result, calls, hint,
                   registries, yielded, transform_name, transforms>>

\* Trees are constructed, walked and transformed, and nodes are tested,
\* validated and intersected, while the caller holds them.
TreeNext ==
    \/ ConstructTree \/ CallWalk
    \/ CallTransform \/ CallDefaultTransform \/ CallSeparateTransform
    \/ HoldNodes \/ CallHeldTest \/ CallHeldValidate \/ CallHeldIntersect
    \/ Release \/ Return

TreeSpec == Init /\ [][TreeNext]_vars

(***************************************************************************)
(* Properties of test.                                                     *)
(***************************************************************************)
Tested == pc = "done" /\ op = "test"
Validated == pc = "done" /\ op = "validate"
Intersected == pc = "done" /\ op = "intersect"

\* Two leaves are the same literal: the same kind and the same value.
SameLiteral(x, y) == x.kind = y.kind /\ x.n = y.n /\ x.items = y.items

\* C1: LiteralNode(v).test(w) is true iff w is of the same kind as v and equals
\* v, the four kinds being pairwise disjoint (a Bool is not an Int).
C1_LiteralTestSameKindAndValue ==
    Tested /\ self.cls \in LiteralCls =>
        (result.status = "True" <=> SameLiteral(pytree, self.value))

\* C2: AbstractIntNode(min, max).test(x) is true iff x is of Int kind (not Bool,
\* Float or Str) and lies within whichever of the two inclusive bounds are set.
C2_AbstractIntTestIntInBounds ==
    Tested /\ self.cls = "AbstractIntNode" =>
        (result.status = "True" <=>
            /\ pytree.kind = "int"
            /\ self.min_value # None => self.min_value <= pytree.n
            /\ self.max_value # None => pytree.n <= self.max_value)

\* The keys of a schema, as literals, and of a mapping.
SchemaKeys(node) == {node.schema[i].key.value : i \in 1..Len(node.schema)}
MappingKeys(d) == {d.items[i].key : i \in 1..Len(d.items)}

\* C3: DictNode.test(value) is true iff value is a mapping with as many keys as
\* the schema, every schema key is present in it and the value under each schema
\* key satisfies that key's child schema; a mapping with a key not in the schema,
\* or lacking a schema key, is a mismatch.
C3_DictTestExactShape ==
    Tested /\ self.cls = "DictNode" =>
        /\ result.status = "True" <=>
            /\ pytree.kind = "dict"
            /\ Len(pytree.items) = Len(self.schema)
            /\ \A i \in 1..Len(self.schema) :
                /\ KeyIn(self.schema[i].key.value, pytree)
                /\ Test(self.schema[i].val,
                        Lookup(pytree, self.schema[i].key.value))
        /\ result.status = "True" =>
            /\ \A k \in MappingKeys(pytree) :
                \E s \in SchemaKeys(self) : SameLiteral(k, s)
            /\ \A s \in SchemaKeys(self) :
                \E k \in MappingKeys(pytree) : SameLiteral(k, s)

\* The alternatives of a union that validate a pytree.
Validating(node, x) ==
    {i \in 1..Len(node.schemas) : Validate(node.schemas[i], x).status = "ok"}
Least(S) == CHOOSE i \in S : \A j \in S : i <= j

\* C4: UnionNode.test(v) is true iff some alternative's test(v) is true;
\* UnionNode.validate(v) tries the alternatives in declaration order, succeeds
\* at the first that validates, and raises one generic error, without a path,
\* only when every alternative has failed.
C4_UnionAnyAlternativeInOrder ==
    /\ Tested /\ self.cls = "UnionNode" =>
        (result.status = "True" <=>
            \E i \in 1..Len(self.schemas) : Test(self.schemas[i], pytree))
    /\ Validated /\ self.cls = "UnionNode" =>
        IF Validating(self, pytree) = {}
        THEN /\ result.status = "IRNodeError"
             /\ result.path = <<>>
             /\ result.msg = "does not match any schema in the union"
             /\ calls = Len(self.schemas)
        ELSE /\ result.status = "ok"
             /\ calls = Least(Validating(self, pytree))

\* A union whose first alternative rejects the pytree and whose second
\* validates it.
C4_Witness ==
    /\ Validated /\ self.cls = "UnionNode"
    /\ Len(self.schemas) = 2
    /\ Validating(self, pytree) = {2}
    /\ result.status = "ok" /\ calls = 2

(***************************************************************************)
(* Properties of validate.                                                 *)
(***************************************************************************)
\* C5: for every node tree and every value, validate returns without error iff
\* test is true.
C5_ValidateIffTest ==
    Validated => (result.status = "ok" <=> Test(self, pytree))

\* validate raises below a branch node, on a value that test rejects.
C5_Witness ==
    /\ Validated /\ self.cls = "DictNode"
    /\ result.status = "IRNodeError" /\ Len(result.path) = 2
    /\ ~Test(self, pytree)

\* C6: test never raises: whatever the node tree and the value, it returns true
\* or false.
C6_TestNeverRaises == Tested => result.status \in {"True", "False"}

\* A Str tested against a bounded AbstractIntNode: false, not a TypeError from
\* comparing a Str with the bound.
C6_Witness ==
    /\ Tested /\ result.status = "False"
    /\ self.cls = "AbstractIntNode" /\ self.min_value # None
    /\ pytree.kind = "str"

RECURSIVE ExpectedPath(_, _)

\* The least element of a set of positions, or 0 when the set is empty.
First(S) == IF S = {} THEN 0 ELSE Least(S)

\* The keys and indices from a node down to the first leaf that rejects a
\* pytree the node rejects: a mapping entry is named by its key, whether the
\* key or its value is rejected, a sequence item by its index.  A node that
\* rejects the shape of the pytree itself (its type, its size, a schema key it
\* lacks), a leaf and a union end the path.
ExpectedPath(node, x) ==
    CASE node.cls = "DictNode" /\ x.kind = "dict"
            /\ Len(x.items) = Len(node.schema) ->
            LET Missing(j) == ~KeyIn(node.schema[j].key.value, x)
                i == First({j \in 1..Len(node.schema) :
                            \/ Missing(j)
                            \/ ~Test(node.schema[j].val,
                                     Lookup(x, node.schema[j].key.value))})
                key == node.schema[i].key.value
            IN  IF i = 0 \/ Missing(i) THEN <<>>
                ELSE <<Segment("key", key)>>
                        \o ExpectedPath(node.schema[i].val, Lookup(x, key))
      [] node.cls = "ListNode" /\ x.kind = "list"
            /\ Len(x.items) = Len(node.schema) ->
            LET i == First({j \in 1..Len(node.schema) :
                            ~Test(node.schema[j], x.items[j])})
            IN  IF i = 0 THEN <<>>
                ELSE <<Segment("index", IntV(i - 1))>>
                        \o ExpectedPath(node.schema[i], x.items[i])
      [] node.cls = "AbstractDictNode" /\ x.kind = "dict" ->
            LET i == First({j \in 1..Len(x.items) :
                            \/ ~Test(node.key_schema, x.items[j].key)
                            \/ ~Test(node.value_schema, x.items[j].val)})
            IN  IF i = 0 THEN <<>>
                ELSE <<Segment("key", x.items[i].key)>>
                        \o  IF ~Test(node.key_schema, x.items[i].key)
                            THEN ExpectedPath(node.key_schema, x.items[i].key)
                            ELSE ExpectedPath(node.value_schema, x.items[i].val)
      [] node.cls = "AbstractListNode" /\ x.kind = "list" ->
            LET i == First({j \in 1..Len(x.items) :
                            ~Test(node.item_schema, x.items[j])})
            IN  IF i = 0 THEN <<>>
                ELSE <<Segment("index", IntV(i - 1))>>
                        \o ExpectedPath(node.item_schema, x.items[i])
      [] OTHER -> <<>>

\* C7: when validate fails at a leaf nested under branch nodes, the error names
\* every key or index on the path from the root to the failing leaf, in
\* root-to-leaf order: DictNode, ListNode, AbstractDictNode and AbstractListNode
\* each wrap the child's error with the failing key (for a mapping entry,
\* whether the key or its value failed) or the failing index.
C7_ErrorNamesPathToLeaf ==
    Validated /\ result.status = "IRNodeError" =>
        result.path = ExpectedPath(self, pytree)

(***************************************************************************)
(* Properties of intersect.                                                *)
(***************************************************************************)
\* C8: AbstractAny is the identity of intersect on both sides: n.intersect(
\* AbstractAny) and AbstractAny.intersect(n) both return n unchanged, for every
\* node n, and neither raises.
C8_AnyIsIdentity ==
    /\ Intersected /\ other.cls = "AbstractAnyNode" =>
        result.status = "ok" /\ result.node = self
    /\ Intersected /\ self.cls = "AbstractAnyNode" =>
        result.status = "ok" /\ result.node = other

\* AbstractAny, as the receiver, returns a branch node operand.
C8_Witness ==
    /\ Intersected /\ self.cls = "AbstractAnyNode"
    /\ other.cls = "DictNode" /\ Len(other.schema) = 2
    /\ result.node = other

\* The merge of one bound of two nodes, as C9 states it.
MergedBound(x, y, r) ==
    /\ x # None => r = x
    /\ y # None => r = y
    /\ x = None /\ y = None => r = None

\* C9: intersecting two AbstractInt nodes (likewise two AbstractFloat nodes)
\* treats min and max independently: a bound that both sides set to different
\* values raises; otherwise the merged bound is the value of whichever side sets
\* it, or unset when neither does.
C9_BoundsMergeIndependently ==
    Intersected /\ self.cls = other.cls
        /\ self.cls \in {"AbstractIntNode", "AbstractFloatNode"} =>
        IF \/ /\ self.min_value # None /\ other.min_value # None
              /\ self.min_value # other.min_value
           \/ /\ self.max_value # None /\ other.max_value # None
              /\ self.max_value # other.max_value
        THEN result.status = "IRNodeError"
        ELSE /\ result.status = "ok"
             /\ result.node.cls = self.cls
             /\ MergedBound(self.min_value, other.min_value,
                            result.node.min_value)
             /\ MergedBound(self.max_value, other.max_value,
                            result.node.max_value)

\* intersect(max only, min only) has both bounds.
C9_Witness ==
    /\ Intersected /\ self.cls = "AbstractIntNode" /\ other.cls = "AbstractIntNode"
    /\ self.min_value = None /\ self.max_value = MaxInt
    /\ other.min_value = 0 /\ other.max_value = None
    /\ result.status = "ok"
    /\ result.node = AbstractIntNode(0, MaxInt)

\* C10: whenever a.intersect(b) returns a node r, r is a tightening of both
\* operands: every value that r.test accepts, a.test and b.test accept too.
C10_IntersectTightensBoth ==
    Intersected /\ result.status = "ok" =>
        \A x \in Values :
            Test(result.node, x) => Test(self, x) /\ Test(other, x)

Bounded(node) == node.cls \in {"AbstractIntNode", "AbstractFloatNode"}

\* A bounded node that no number satisfies: its min is above its max.
Unsatisfiable(node) ==
    /\ node.min_value # None /\ node.max_value # None
    /\ node.min_value > node.max_value

\* Two bounded nodes that no number satisfies together: the greater of their
\* mins is above the lesser of their maxes.
NoCommonValue(a, b) ==
    LET lo == IF a.min_value = None THEN b.min_value
              ELSE IF b.min_value = None THEN a.min_value
              ELSE IF a.min_value < b.min_value THEN b.min_value
              ELSE a.min_value
        hi == IF a.max_value = None THEN b.max_value
              ELSE IF b.max_value = None THEN a.max_value
              ELSE IF a.max_value < b.max_value THEN a.max_value
              ELSE b.max_value
    IN  lo # None /\ hi # None /\ lo > hi

\* C11: intersecting two AbstractInt (or two AbstractFloat) nodes, each
\* satisfiable on its own, whose bounds admit no common value raises
\* IRNodeError, and the node intersect returns never has its min above its max.
C11_DisjointBoundsRaise ==
    Intersected /\ Bounded(self) /\ other.cls = self.cls
        /\ ~Unsatisfiable(self) /\ ~Unsatisfiable(other) =>
        /\ NoCommonValue(self, other) => result.status = "IRNodeError"
        /\ result.status = "ok" => ~Unsatisfiable(result.node)

\* L and the abstract literal node of L's own kind.
OwnAbstract(literal, abstract) ==
    /\ literal.cls \in LiteralCls
    /\ abstract.cls = AbstractNodeRegistry[Pytype(literal)]

\* C12: for a literal node L and the abstract literal node A of L's kind,
\* L.intersect(A) returns L when A.test(L.value) is true and raises IRNodeError
\* when it is false.
C12_LiteralIntersectAbstractTests ==
    Intersected /\ OwnAbstract(self, other) =>
        IF Test(other, self.value)
        THEN result.status = "ok" /\ result.node = self
        ELSE result.status = "IRNodeError"

\* C13: with the abstract literal node A as the receiver and the literal L of
\* A's kind as the operand the outcome is the same: A.intersect(L) returns L
\* when A.test(L.value) is true and raises IRNodeError otherwise.
C13_AbstractIntersectLiteralSame ==
    Intersected /\ OwnAbstract(other, self) =>
        IF Test(self, other.value)
        THEN result.status = "ok" /\ result.node = other
        ELSE result.status = "IRNodeError"

SchemaKeyNodes(node) == {node.schema[i].key : i \in 1..Len(node.schema)}
Child(node, key) ==
    node.schema[CHOOSE i \in 1..Len(node.schema) : node.schema[i].key = key].val

\* C14: DictNode.intersect(DictNode) depends on the key sets only, not on the
\* order of the keys: with equal key sets the result is a DictNode over that
\* key set whose child for each key is the intersection of the operands'
\* children for the key, and it fails only if one of those intersections
\* fails; with different key sets it raises IRNodeError.
C14_DictIntersectByKeySet ==
    Intersected /\ self.cls = "DictNode" /\ other.cls = "DictNode" =>
        IF SchemaKeyNodes(self) # SchemaKeyNodes(other)
        THEN result.status = "IRNodeError"
        ELSE IF \A k \in SchemaKeyNodes(self) :
                    Intersect(Child(self, k), Child(other, k)).status = "ok"
        THEN /\ result.status = "ok"
             /\ result.node.cls = "DictNode"
             /\ SchemaKeyNodes(result.node) = SchemaKeyNodes(self)
             /\ \A k \in SchemaKeyNodes(self) :
                    Child(result.node, k) =
                        Intersect(Child(self, k), Child(other, k)).node
        ELSE result.status # "ok"

\* C15: UnionNode.intersect(UnionNode) pairs the alternatives by position: for
\* two unions of n alternatives each it returns a UnionNode of n alternatives,
\* the i-th being the intersection of the operands' i-th alternatives; for
\* unions of different numbers of alternatives it raises IRNodeError.
C15_UnionIntersectPositional ==
    Intersected /\ self.cls = "UnionNode" /\ other.cls = "UnionNode" =>
        IF Len(self.schemas) # Len(other.schemas)
        THEN result.status = "IRNodeError"
        ELSE (\A i \in 1..Len(self.schemas) :
                Intersect(self.schemas[i], other.schemas[i]).status = "ok") =>
             /\ result.status = "ok"
             /\ result.node.cls = "UnionNode"
             /\ Len(result.node.schemas) = Len(self.schemas)
             /\ \A i \in 1..Len(self.schemas) :
                    result.node.schemas[i] =
                        Intersect(self.schemas[i], other.schemas[i]).node

\* The pairings C16 sets apart: an AbstractAny operand, two nodes of the same
\* kind, a literal with the abstract literal of its own kind.
Paired(a, b) ==
    \/ a.cls = "AbstractAnyNode" \/ b.cls = "AbstractAnyNode"
    \/ a.cls = b.cls
    \/ OwnAbstract(a, b) \/ OwnAbstract(b, a)

\* A branch node with the abstract branch node of its own container type.
OwnShape(branch, abstract) ==
    /\ branch.cls \in BranchCls /\ abstract.cls \in AbstractBranchCls
    /\ Pytype(branch) = Pytype(abstract)

\* C16: intersect raises IRNodeError for every pairing that is not an
\* AbstractAny operand, two nodes of the same kind, or a literal with the
\* abstract literal of its own kind; in no such pairing does it return a node.
C16_OtherPairingsRaise ==
    Intersected /\ ~Paired(self, other) => result.status = "IRNodeError"

\* C16, amended: the same, a branch node with the abstract branch node of its
\* own container type (DictNode with AbstractDictNode, ListNode with
\* AbstractListNode) set apart as well: there intersect returns the branch node.
C16_OtherPairingsRaiseButOwnShape ==
    /\ Intersected /\ ~Paired(self, other)
        /\ ~OwnShape(self, other) /\ ~OwnShape(other, self) =>
            result.status = "IRNodeError"
    /\ Intersected /\ OwnShape(self, other) =>
            result.status = "ok" /\ result.node = self
    /\ Intersected /\ OwnShape(other, self) =>
            result.status = "ok" /\ result.node = other

\* A DictNode meets the abstract node of the other container shape.
C16_Witness ==
    /\ Intersected
    /\ self.cls = "DictNode" /\ Len(self.schema) = 1
    /\ other.cls = "AbstractListNode"
    /\ result.status = "IRNodeError"

(***************************************************************************)
(* Properties of the registries and of resolution.                         *)
(***************************************************************************)
Defined == pc = "done" /\ op = "define"
Resolved == pc = "done" /\ op = "from_type"
FromValue == pc = "done" /\ op = "pytree_to_schema"
FromAnnotation == pc = "done" /\ op = "type_hint_to_schema"

\* The key a class statement registers under is bound already.
KeyBound(pytype, registry, abstract_registry) ==
    \/ pytype.origin = "type" /\ pytype.name \in DOMAIN registry
    \/ pytype.origin = "AbstractType" /\ pytype.name \in DOMAIN abstract_registry

\* Every binding of registry is a binding of later.
Kept(registry, later) ==
    \A k \in DOMAIN registry : k \in DOMAIN later /\ later[k] = registry[k]

\* C17: registering a node kind under a key that is already bound fails with
\* an error and leaves the binding in place: no step replaces or removes a
\* binding, so each key keeps the class registered for it first.
C17_RegisterBoundKeyFails ==
    [][/\ Kept(node_registry, node_registry')
       /\ Kept(abstract_node_registry, abstract_node_registry')
       /\ op' = "define"
            /\ KeyBound(hint', node_registry, abstract_node_registry) =>
                result'.status # "ok"]_vars

\* C18: resolution is by exact match with no fallback: a value resolves to the
\* class bound to exactly its type (a bool to BoolNode, never to IntNode), a
\* marker to the class bound to exactly that marker, and a value or marker
\* that is not bound raises IRNodeError.
C18_ResolutionIsExact ==
    Resolved =>
        IF hint = NoHint
        THEN IF pytree.kind \in DOMAIN node_registry
             THEN /\ result.status = "ok"
                  /\ result.node.cls = node_registry[pytree.kind]
                  /\ pytree.kind = "bool" => result.node.cls = "BoolNode"
             ELSE result.status = "IRNodeError"
        ELSE IF hint.name \in DOMAIN abstract_node_registry
             THEN /\ result.status = "ok"
                  /\ result.node.cls = abstract_node_registry[hint.name]
             ELSE result.status = "IRNodeError"

(***************************************************************************)
(* Properties of derivation.                                               *)
(***************************************************************************)
RECURSIVE IsPytree(_)
RECURSIVE Mirrors(_, _)

\* A pytree: any nesting of dicts with literal keys, lists, and int, bool,
\* str and float literals.
IsPytree(x) ==
    CASE x.kind = "list" -> \A i \in 1..Len(x.items) : IsPytree(x.items[i])
      [] x.kind = "dict" ->
            \A i \in 1..Len(x.items) :
                /\ x.items[i].key.kind \in {"int", "bool", "str", "float"}
                /\ IsPytree(x.items[i].val)
      [] OTHER -> x.kind \in {"int", "bool", "str", "float"}

\* node has a literal node for every literal of x, a DictNode with the same
\* keys for every dict and a ListNode of the same length and order for every
\* list.
Mirrors(node, x) ==
    CASE x.kind = "list" ->
            /\ node.cls = "ListNode"
            /\ Len(node.schema) = Len(x.items)
            /\ \A i \in 1..Len(x.items) : Mirrors(node.schema[i], x.items[i])
      [] x.kind = "dict" ->
            /\ node.cls = "DictNode"
            /\ Len(node.schema) = Len(x.items)
            /\ \A i \in 1..Len(x.items) :
                /\ node.schema[i].key.cls \in LiteralCls
                /\ SameLiteral(node.schema[i].key.value, x.items[i].key)
                /\ Mirrors(node.schema[i].val, x.items[i].val)
      [] OTHER ->
            /\ node.cls \in LiteralCls
            /\ node.cls = NodeRegistry[x.kind]
            /\ SameLiteral(node.value, x)

\* C19: for every pytree v, pytree_to_schema(v) succeeds, the tree it returns
\* tests v true, and the tree has a literal node for every literal, a DictNode
\* with the same keys for every dict and a ListNode of the same length and
\* order for every list.
C19_FromValueTestsItsValue ==
    FromValue /\ IsPytree(pytree) =>
        /\ result.status = "ok"
        /\ Mirrors(result.node, pytree)
        /\ Test(result.node, pytree)

RECURSIVE Annotation(_)
RECURSIVE Lowered(_)

\* An annotation of the alphabet: alternative-of, sequence-of, mapping-of, or
\* a bare literal kind.
Annotation(h) ==
    CASE h.origin = "Union" ->
            Len(h.args) >= 2 /\ \A i \in 1..Len(h.args) : Annotation(h.args[i])
      [] h.origin = "list" -> Len(h.args) = 1 /\ Annotation(h.args[1])
      [] h.origin = "dict" ->
            Len(h.args) = 2 /\ Annotation(h.args[1]) /\ Annotation(h.args[2])
      [] OTHER -> h.name \in {"int", "bool", "str", "float"}

\* The annotations C21 names: a bare type that is not registered, a value in
\* the place of an annotation, a list or dict without its parameters.
Unsupported(h) ==
    \/ h.origin = "None" /\ h.name # ""
            /\ h.name \notin DOMAIN AbstractNodeRegistry
    \/ h.origin = "None" /\ h.name = ""
    \/ h.origin \in {"list", "dict"} /\ h.args = <<>>
    \/ h.origin = "None" /\ h.name \in {"list", "dict"}

\* C21: type_hint_to_schema raises IRNodeError, never another exception and
\* never a node, for every annotation outside the alphabet: a bare type that
\* is not registered, a value passed for an annotation, and a list or dict
\* given without its element parameters.
C21_UnsupportedAnnotationRaises ==
    FromAnnotation /\ Unsupported(hint) => result.status = "IRNodeError"

\* The node C20 gives for an annotation.
Lowered(h) ==
    CASE h.origin = "Union" ->
            UnionNode([i \in 1..Len(h.args) |-> Lowered(h.args[i])])
      [] h.origin = "list" -> AbstractListNode(Lowered(h.args[1]))
      [] h.origin = "dict" ->
            AbstractDictNode(Lowered(h.args[1]), Lowered(h.args[2]))
      [] h.name = "int" -> AbstractIntNode(None, None)
      [] h.name = "float" -> AbstractFloatNode(None, None)
      [] h.name = "bool" -> AbstractBoolNode
      [] h.name = "str" -> AbstractStrNode

IntOrStrings == UnionOf(<<Bare("int"), ListOf(<<Bare("str")>>)>>)

\* C20: type_hint_to_schema lowers each annotation form to the matching
\* abstract node, recursively: Union[T1..Tn] to a UnionNode whose i-th
\* alternative is the lowering of Ti, List[T] to AbstractListNode of the
\* lowering of T, Dict[K, V] to AbstractDictNode of the lowerings of K and V,
\* a bare literal kind to the unbounded abstract literal node of the kind; the
\* lowering of Union[int, List[str]] validates an int and a list of strs and
\* rejects a str.
C20_AnnotationLowersToAbstract ==
    FromAnnotation /\ Annotation(hint) =>
        /\ result.status = "ok"
        /\ result.node = Lowered(hint)
        /\ hint = IntOrStrings =>
            /\ result.node =
                 UnionNode(<<AbstractIntNode(None, None),
                             AbstractListNode(AbstractStrNode)>>)
            /\ Validate(result.node, IntV(MaxInt)).status = "ok"
            /\ Validate(result.node, ListV(<<StrV(1), StrV(MaxStr)>>)).status
                 = "ok"
            /\ Validate(result.node, StrV(1)).status = "IRNodeError"

\* Union[int, List[str]] is lowered to a UnionNode of two alternatives.
C20_Witness ==
    /\ FromAnnotation /\ hint = IntOrStrings
    /\ result.status = "ok"
    /\ result.node.cls = "UnionNode" /\ Len(result.node.schemas) = 2

(***************************************************************************)
(* The SchemaNode family: walk, the transforms, and the registries.        *)
(***************************************************************************)
WalkDone == pc = "done" /\ op = "walk"
TransformDone == pc = "done" /\ op = "transform"
DefaultTransformDone == pc = "done" /\ op = "default_transform"
SeparateTransformDone == pc = "done" /\ op = "separate_transform"
IsLiteral(node) == "value" \in DOMAIN node

RECURSIVE NodeAt(_, _)
RECURSIVE Positions(_)
RECURSIVE Before(_, _)

\* The node of tree t at a position, the indexes of the children to descend by
NodeAt(t, pos) ==
    IF pos = <<>> THEN t ELSE NodeAt(Children(t)[Head(pos)], Tail(pos))

\* The positions of all the nodes of tree t, the root's the empty one
Positions(t) ==
    IF IsLiteral(t) THEN {<<>>}
    ELSE {<<>>} \cup UNION {{<<i>> \o pos : pos \in Positions(Children(t)[i])} :
                               i \in 1..Len(Children(t))}

\* Depth-first pre-order: a node before its descendants, a child's subtree
\* before the next child's.
Before(q, pos) ==
    /\ q # pos
    /\ \/ q = <<>>
       \/ /\ pos # <<>>
          /\ \/ Head(q) < Head(pos)
             \/ Head(q) = Head(pos) /\ Before(Tail(q), Tail(pos))

\* The pair for the node at a position: its ancestors from the root down to
\* its parent, and the node.
PairAt(t, pos) ==
    [path |-> [k \in 1..Len(pos) |-> NodeAt(t, SubSeq(pos, 1, k - 1))],
     node |-> NodeAt(t, pos)]

\* The walk yielded the nodes at the positions P, each once, in pre-order.
Lists(P) ==
    /\ Len(yielded) = Cardinality(P)
    /\ \A pos \in P :
        yielded[1 + Cardinality({q \in P : Before(q, pos)})] = PairAt(self, pos)

\* C22: walk() yields every node of the tree, branch nodes and the root
\* included, exactly once, in depth-first pre-order, each with the chain of
\* its ancestors from the root down to its parent.
C22_WalkYieldsEveryNode ==
    WalkDone => Lists(Positions(self))

\* C22, amended: walk() yields every literal leaf of the tree exactly once, in
\* depth-first pre-order, each with the chain of its ancestors from the root
\* down to its parent; a branch node, the root included, is never the node of
\* a pair and appears only in the paths of the leaves below it.
C22_WalkYieldsEveryLeaf ==
    WalkDone => Lists({pos \in Positions(self) : IsLiteral(NodeAt(self, pos))})

\* A list of a two-key dict was walked: both leaves, behind the list and the
\* dict.
C22_Witness ==
    /\ WalkDone
    /\ self = IRListNode(<<IRDictNode(
                  <<Entry(StrV(1), Literal("IntNode", IntV(1))),
                    Entry(StrV(2), Literal("StringNode", StrV(1)))>>)>>)
    /\ Len(yielded) = 2
    /\ yielded[1].path = <<self, self.children[1]>>
    /\ yielded[1].node = Literal("IntNode", IntV(1))

Recombined(node, tree_case) ==
    IF node.cls = "DictNode"
    THEN IRDictNode([i \in 1..Len(tree_case) |->
                        Entry(node.children[i].key, tree_case[i])])
    ELSE [cls |-> node.cls, children |-> tree_case]

\* C24: the default transform of a branch node yields one tree per element of
\* the Cartesian product of what its children's transforms yield, the
\* children in their order: 4 for two children of 2 variants each, 1 when
\* every child yields one.
C24_DefaultTransformIsProduct ==
    DefaultTransformDone /\ ~IsLiteral(self) =>
        /\ result.status = "ok"
        /\ LET cases == Product([i \in 1..Len(Children(self)) |->
                           Transform(Children(self)[i], transform_name,
                                     transforms).yielded])
           IN  yielded = [k \in 1..Len(cases) |-> Recombined(self, cases[k])]

\* C25: separate_transform of an AnyOfNode of n alternatives yields n trees,
\* the i-th the i-th alternative.
C25_SeparateYieldsAlternatives ==
    SeparateTransformDone =>
        /\ result.status = "ok"
        /\ Len(yielded) = Len(self.children)
        /\ \A i \in 1..Len(self.children) : yielded[i] = self.children[i]

\* An AnyOfNode of an int and a str was split in two.
C25_Witness ==
    /\ SeparateTransformDone
    /\ self = AnyOfNode(<<Literal("IntNode", IntV(1)),
                          Literal("StringNode", StrV(1))>>)
    /\ yielded = self.children

\* C26: transform(name, data) yields for every name: what the registered
\* transform yields when the name is registered for the node's class, what
\* the default transform yields otherwise, the node itself for a Literal.
C26_TransformIsTotal ==
    TransformDone =>
        /\ result.status = "ok"
        /\ transform_name \notin DOMAIN transforms.registry[self.cls]
             => yielded = DefaultTransform(self, "", transforms).yielded

\* C27: test, validate, intersect, walk and the transforms leave every node
\* the caller holds as it was, and an intersect that succeeds returns a node.
C27_NodesAreImmutable ==
    [][pc' = "done" /\ op' \in {"test", "validate", "intersect", "walk",
            "transform", "default_transform", "separate_transform"}
        => /\ held' = held
           /\ op' = "intersect" /\ result'.status = "ok"
                => result'.node # NoNode]_vars

\* Two held bounds were intersected into a node that is neither of them.
C27_Witness ==
    /\ pc = "done" /\ op = "intersect" /\ result.status = "ok"
    /\ held.a = AbstractIntNode(0, None)
    /\ held.b = AbstractIntNode(None, MaxInt)
    /\ result.node = AbstractIntNode(0, MaxInt)

\* C28: once the classes are defined, constructing a node, test, validate,
\* intersect, walk and transform add or replace no entry of the type
\* registries or of any class's transform registry.
C28_RegistriesAreReadOnly ==
    [][pc' = "done" /\ op' \in {"construct", "test", "validate", "intersect",
            "walk", "transform", "default_transform", "separate_transform"}
        => /\ transforms' = transforms
           /\ node_registry' = node_registry
           /\ abstract_node_registry' = abstract_node_registry]_vars

\* C30: whatever AnyOfNodes were constructed, before or after,
\* transform("SplitTreesOnOptions", data) on an AnyOfNode yields that
\* instance's own alternatives, in order.
C30_SplitByNameYieldsOwnAlternatives ==
    TransformDone /\ transform_name = "SplitTreesOnOptions"
            /\ self.cls = "AnyOfNode" =>
        /\ result.status = "ok"
        /\ yielded = self.children

(***************************************************************************)
(* Equality of nodes.                                                      *)
(***************************************************************************)
Compared == pc = "done" /\ op = "eq"

\* C29: node equality is structural.  Two literal nodes are equal iff they
\* are of the same kind and bind the same value; two AbstractIntNodes, or two
\* AbstractFloatNodes, are equal iff their min values agree and their max
\* values agree, an unset bound agreeing only with an unset bound: a node of
\* min 3 alone is not equal to a node of max 3 alone, nor min 0, max 2 to
\* min 2, max 0.
C29_EqualityIsStructural ==
    Compared /\ self.cls = other.cls
             /\ self.cls \in LiteralCls \cup {"AbstractIntNode",
                                             "AbstractFloatNode"}
        => (result.status = "True" <=> self = other)
====
